---- MODULE Spec2Model ----
(***************************************************************************)
(* A model of the pufu binary serialization framework: the Encoder that    *)
(* assembles a payload (header, Fixed region, VarIndex, Data region), the  *)
(* Decoder that validates a buffer and hands out slices, and the derive    *)
(* macros that turn a record shape into encode/decode routines.            *)
(*                                                                         *)
(* Bytes are the integers 0..255, byte strings are sequences of bytes.     *)
(***************************************************************************)
EXTENDS Integers, Sequences, FiniteSets, TLC

VARIABLES
    pc,       \* position of the caller: which operation ran last
    host,     \* byte order of the build target ("le" or "be"), read by to_ne_bytes
    enc,      \* the Encoder: [endian, fixed, var_length, data]
    log,      \* the fields the caller pushed, in push order
    base,     \* length of the output buffer before finalize appended to it
    out,      \* the caller's output buffer
    fin,      \* result of Encoder::finalize: "none", "ok" or "err"
    dec,      \* the Decoder: [buf, total_len, var_idx_offset, data_offset, ...]
    res,      \* result of the last Decoder operation
    got,      \* the byte slices the in-order read-back returned so far
    shape,    \* the declared record shape handed to the derive macros
    derived,  \* result of collect_fields on the shape
    value,    \* a value of the declared record
    view      \* result of the derived decode_field

vars == <<pc, host, enc, log, base, out, fin, dec, res, got, shape, derived, value, view>>

(***************************************************************************)
(* Bounds of the model.                                                    *)
(***************************************************************************)
\* number of encode_field calls made on one Encoder
MaxPushes == 3
\* number of VarIndex words in a hand-made buffer
MaxWords == 2
\* number of fields of a declared record
MaxFields == 3

(***************************************************************************)
(* Integers and byte strings.                                              *)
(***************************************************************************)
Endian == {"Little", "Big", "Native"}
HostOrders == {"le", "be"}

\* n fits an unsigned 32-bit integer (n < 2^32), computed without leaving
\* the integers the checker can hold
FitsU32(n) == n >= 0 /\ (n \div 65536) < 65536

RECURSIVE Pow256(_)
Pow256(k) == IF k = 0 THEN 1 ELSE 256 * Pow256(k - 1)

\* v.to_le_bytes() for an integer of w bytes
to_le_bytes(v, w) == [i \in 1..w |-> (v \div Pow256(i - 1)) % 256]
\* v.to_be_bytes() for an integer of w bytes
to_be_bytes(v, w) == [i \in 1..w |-> (v \div Pow256(w - i)) % 256]
\* v.to_ne_bytes(): the byte order of the build target
to_ne_bytes(v, w) == IF host = "le" THEN to_le_bytes(v, w) ELSE to_be_bytes(v, w)

RECURSIVE from_le_bytes(_)
from_le_bytes(b) ==
    IF Len(b) = 0 THEN 0 ELSE Head(b) + 256 * from_le_bytes(Tail(b))

RECURSIVE from_be_bytes(_)
from_be_bytes(b) ==
    IF Len(b) = 0 THEN 0
    ELSE Head(b) * Pow256(Len(b) - 1) + from_be_bytes(Tail(b))

\* buf[start..end] of Rust: the bytes at 0-based offsets start .. end-1
Slice(buf, start, end) == SubSeq(buf, start + 1, end)

RECURSIVE Concat(_)
Concat(ss) == IF Len(ss) = 0 THEN <<>> ELSE Head(ss) \o Concat(Tail(ss))

RECURSIVE SumSeq(_)
SumSeq(s) == IF Len(s) = 0 THEN 0 ELSE Head(s) + SumSeq(Tail(s))

(***************************************************************************)
(* Fixed-width data (data_type.rs, fixed_decode.rs).                       *)
(***************************************************************************)
\* DataType::push_fixed_data of a primitive: the bytes appended for value v
\* of width w.  Native is encoded as little-endian.
push_fixed_data(v, w, endian) ==
    CASE endian = "Little" -> to_le_bytes(v, w)
      [] endian = "Big"    -> to_be_bytes(v, w)
      [] endian = "Native" -> to_le_bytes(v, w)

RECURSIVE push_fixed_items(_, _, _)
\* the loop `for item in self { item.push_fixed_data(..) }` of arrays, Vec<T>
\* and slices: the items' bytes back to back
push_fixed_items(items, w, endian) ==
    IF Len(items) = 0 THEN <<>>
    ELSE push_fixed_data(Head(items), w, endian)
            \o push_fixed_items(Tail(items), w, endian)

\* FixedDecode::decode of a primitive of Len(bytes) bytes
fixed_decode(bytes, endian) ==
    CASE endian = "Little" -> from_le_bytes(bytes)
      [] endian = "Big"    -> from_be_bytes(bytes)
      [] endian = "Native" -> from_le_bytes(bytes)

(***************************************************************************)
(* Fields pushed by the caller.  A field is [kind, w, val]: w is the byte  *)
(* width of the primitive element type, val is <<v>> for a scalar, the     *)
(* items of an array [T; N], the items of a Vec<T>, or the inner           *)
(* sequences of a Vec<Vec<T>>.                                             *)
(***************************************************************************)
IsFixedKind(f) == f.kind \in {"scalar", "array"}

\* the variable segments a field contributes, as item sequences
Segs(f) ==
    CASE f.kind = "var1" -> <<f.val>>
      [] f.kind = "var2" -> f.val
      [] OTHER           -> <<>>

(***************************************************************************)
(* Encoder (encoder.rs) and the Encode trait (encode.rs).                  *)
(***************************************************************************)
\* Encoder::new: empty regions
Encoder_new(endian) ==
    [endian |-> endian, fixed |-> <<>>, var_length |-> <<>>, data |-> <<>>]

\* Encode for primitives and for [T; N]: push_fixed_data into e.fixed
encode_field_fixed(e, f) ==
    [e EXCEPT !.fixed = @ \o push_fixed_items(f.val, f.w, e.endian)]

\* DataType::push_var1_data for &[T]: the items into data, one length entry
push_var1_data(e, items, w) ==
    [e EXCEPT !.data = @ \o push_fixed_items(items, w, e.endian),
              !.var_length = Append(@, Len(items) * w)]

RECURSIVE push_var1_each(_, _, _)
\* the loop `for item in self.iter() { item.push_var1_data(..) }`
push_var1_each(e, segs, w) ==
    IF Len(segs) = 0 THEN e
    ELSE push_var1_each(push_var1_data(e, Head(segs), w), Tail(segs), w)

\* an Encode for Vec<T> that encodes a var2 field whatever IS_LAST_VAR is
encode_field_vec_unchecked(e, f, is_last_var) ==
    IF f.kind = "var1"
    THEN [panic |-> FALSE, e |-> push_var1_data(e, f.val, f.w)]
    ELSE [panic |-> FALSE, e |-> push_var1_each(e, f.val, f.w)]

\* the same loop when the items are themselves Vec<Vec<T>> (kind "var3"):
\* DataType for Vec<T>::push_var1_data panics on the first item because
\* its element mode is not Fixed; with no item the loop body never runs
push_var1_each_nested(e, items) ==
    IF Len(items) = 0
    THEN [panic |-> FALSE, e |-> e]
    ELSE [panic |-> TRUE, e |-> e]

\* Encode for Vec<T>: T::MODE = Fixed is a var1 field, T::MODE = Var1 is a
\* var2 field, which panics unless IS_LAST_VAR.  The result tells whether
\* the call panicked and the Encoder it leaves.
encode_field_vec(e, f, is_last_var) ==
    IF f.kind = "var1"
    THEN [panic |-> FALSE, e |-> push_var1_data(e, f.val, f.w)]
    ELSE IF ~is_last_var
         THEN [panic |-> TRUE, e |-> e]
         ELSE IF f.kind = "var3"
              THEN push_var1_each_nested(e, f.val)
              ELSE [panic |-> FALSE, e |-> push_var1_each(e, f.val, f.w)]

\* encode_field::<IS_LAST_VAR> of a field of any kind
encode_field(e, f, is_last_var) ==
    IF IsFixedKind(f)
    THEN [panic |-> FALSE, e |-> encode_field_fixed(e, f)]
    ELSE encode_field_vec(e, f, is_last_var)

\* write_u32_endian: 4 bytes appended in the byte order of the policy
write_u32_endian(o, v, endian) ==
    o \o (CASE endian = "Little" -> to_le_bytes(v, 4)
            [] endian = "Big"    -> to_be_bytes(v, 4)
            [] endian = "Native" -> to_ne_bytes(v, 4))

HEADER_FIELDS_LEN == 8

RECURSIVE write_entries_relative(_, _, _, _)
\* a finalize that leaves the entries data-relative lengths instead of
\* running absolute offsets
write_entries_relative(o, lens, cur, endian) ==
    IF Len(lens) = 0 THEN [ok |-> TRUE, out |-> o]
    ELSE write_entries_relative(write_u32_endian(o, Head(lens), endian),
                                Tail(lens), cur, endian)

RECURSIVE write_entries_advance_first(_, _, _, _)
\* a finalize that adds each length to the running offset before it emits
\* the offset
write_entries_advance_first(o, lens, cur, endian) ==
    IF Len(lens) = 0 THEN [ok |-> TRUE, out |-> o]
    ELSE LET nxt == cur + Head(lens)
         IN  write_entries_advance_first(write_u32_endian(o, nxt, endian),
                                         Tail(lens), nxt, endian)

RECURSIVE write_entries(_, _, _, _)
\* the loop of finalize over var_length: each entry is the running absolute
\* offset; the offset is then advanced by checked_add, whose overflow
\* returns the error with the entries written so far left in the buffer
write_entries(o, lens, cur, endian) ==
    IF Len(lens) = 0 THEN [ok |-> TRUE, out |-> o]
    ELSE LET o2 == write_u32_endian(o, cur, endian)
             nxt == cur + Head(lens)
         IN  IF ~FitsU32(nxt) THEN [ok |-> FALSE, out |-> o2]
             ELSE write_entries(o2, Tail(lens), nxt, endian)

\* Encoder::finalize(self, out): [ok, out]
finalize(e, o) ==
    LET fixed_len     == Len(e.fixed)
        var_entry_len == Len(e.var_length) * 4
        data_len      == Len(e.data)
        total_len     == HEADER_FIELDS_LEN + fixed_len + var_entry_len + data_len
        var_entry_offset  == HEADER_FIELDS_LEN + fixed_len
        data_start_offset == var_entry_offset + var_entry_len
    IN  IF ~(FitsU32(fixed_len) /\ FitsU32(var_entry_len) /\ FitsU32(data_len)
             /\ FitsU32(total_len))
        THEN [ok |-> FALSE, out |-> o]
        ELSE LET o1 == write_u32_endian(o, total_len, e.endian)
                 o2 == write_u32_endian(o1, var_entry_offset, e.endian)
                 o3 == o2 \o e.fixed
                 w  == write_entries(o3, e.var_length, data_start_offset, e.endian)
             IN  IF ~w.ok THEN w
                 ELSE [ok |-> TRUE, out |-> w.out \o e.data]

(***************************************************************************)
(* Decoder (decoder.rs).                                                   *)
(***************************************************************************)
HEADER_LEN == 8

\* the Decoder before construction and after a failed construction
NoDecoder ==
    [buf |-> <<>>, total_len |-> 0, var_idx_offset |-> 0, data_offset |-> 0,
     fixed_cursor |-> 0, var_cursor |-> 0, endian |-> "Little"]

\* a construction that does not check the index stride
data_offset_valid_no_stride(total_len, var_idx_offset, data_offset) ==
    ~(\/ data_offset < var_idx_offset
      \/ data_offset > total_len
      \/ (total_len > var_idx_offset /\ data_offset = var_idx_offset))

\* a construction that does not check data_offset against total_len
data_offset_valid_no_upper(total_len, var_idx_offset, data_offset) ==
    ~(\/ data_offset < var_idx_offset
      \/ (total_len > var_idx_offset /\ data_offset = var_idx_offset)
      \/ (data_offset - var_idx_offset) % 4 # 0)

\* the four checks of with_endian on data_offset: none returns InvalidLength
data_offset_valid(total_len, var_idx_offset, data_offset) ==
    ~(\/ data_offset < var_idx_offset
      \/ data_offset > total_len
      \/ (total_len > var_idx_offset /\ data_offset = var_idx_offset)
      \/ (data_offset - var_idx_offset) % 4 # 0)

\* Decoder::with_endian(buf, endian): [ok, d]
with_endian(buf, endian) ==
    IF Len(buf) < HEADER_LEN THEN [ok |-> FALSE, d |-> NoDecoder]
    ELSE
    LET total_len      == from_le_bytes(Slice(buf, 0, 4))
        var_idx_offset == from_le_bytes(Slice(buf, 4, 8))
    IN  IF total_len > Len(buf) THEN [ok |-> FALSE, d |-> NoDecoder]
        ELSE IF var_idx_offset < HEADER_LEN THEN [ok |-> FALSE, d |-> NoDecoder]
        ELSE IF var_idx_offset > total_len THEN [ok |-> FALSE, d |-> NoDecoder]
        ELSE IF total_len # var_idx_offset /\ var_idx_offset + 4 > Len(buf)
             THEN [ok |-> FALSE, d |-> NoDecoder]
        ELSE
        LET data_offset ==
                IF total_len = var_idx_offset THEN var_idx_offset
                ELSE from_le_bytes(Slice(buf, var_idx_offset, var_idx_offset + 4))
        IN  IF ~data_offset_valid(total_len, var_idx_offset, data_offset)
            THEN [ok |-> FALSE, d |-> NoDecoder]
            ELSE [ok |-> TRUE,
                  d  |-> [buf |-> buf, total_len |-> total_len,
                          var_idx_offset |-> var_idx_offset,
                          data_offset |-> data_offset,
                          fixed_cursor |-> 0, var_cursor |-> 0,
                          endian |-> endian]]

\* Decoder::var_count
var_count(d) == (d.data_offset - d.var_idx_offset) \div 4

\* a next_fixed_bytes that returns the slice and leaves fixed_cursor alone
next_fixed_bytes_no_advance(d, len) ==
    IF d.var_idx_offset < HEADER_LEN THEN [ok |-> FALSE, bytes |-> <<>>, d |-> d]
    ELSE IF len > d.var_idx_offset - HEADER_LEN - d.fixed_cursor
         THEN [ok |-> FALSE, bytes |-> <<>>, d |-> d]
    ELSE [ok |-> TRUE,
          bytes |-> Slice(d.buf, d.fixed_cursor + HEADER_LEN,
                          d.fixed_cursor + HEADER_LEN + len),
          d |-> d]

\* a next_fixed_bytes that measures the remaining bytes up to total_len
\* instead of up to var_idx_offset
next_fixed_bytes_to_total_len(d, len) ==
    IF d.total_len < HEADER_LEN + d.fixed_cursor \/ len > d.total_len - HEADER_LEN - d.fixed_cursor
    THEN [ok |-> FALSE, bytes |-> <<>>, d |-> d]
    ELSE [ok |-> TRUE,
          bytes |-> Slice(d.buf, d.fixed_cursor + HEADER_LEN, d.fixed_cursor + HEADER_LEN + len),
          d |-> [d EXCEPT !.fixed_cursor = @ + len]]

\* a next_fixed_bytes that moves the cursor before it checks the length
next_fixed_bytes_advance_first(d, len) ==
    LET d1 == [d EXCEPT !.fixed_cursor = @ + len]
    IN  IF d.var_idx_offset < HEADER_LEN \/ d.var_idx_offset - HEADER_LEN < d1.fixed_cursor
        THEN [ok |-> FALSE, bytes |-> <<>>, d |-> d1]
        ELSE [ok |-> TRUE,
              bytes |-> Slice(d.buf, d.fixed_cursor + HEADER_LEN, d1.fixed_cursor + HEADER_LEN),
              d |-> d1]

\* Decoder::next_fixed_bytes(len): [ok, bytes, d]
next_fixed_bytes(d, len) ==
    IF d.var_idx_offset < HEADER_LEN THEN [ok |-> FALSE, bytes |-> <<>>, d |-> d]
    ELSE
    LET fixed_len == d.var_idx_offset - HEADER_LEN
    IN  IF fixed_len < d.fixed_cursor THEN [ok |-> FALSE, bytes |-> <<>>, d |-> d]
        ELSE IF len > fixed_len - d.fixed_cursor
             THEN [ok |-> FALSE, bytes |-> <<>>, d |-> d]
        ELSE
        LET start_abs == d.fixed_cursor + HEADER_LEN
            end_abs   == start_abs + len
        IN  IF ~FitsU32(start_abs) \/ ~FitsU32(end_abs)
                 \/ ~FitsU32(d.fixed_cursor + len)
            THEN [ok |-> FALSE, bytes |-> <<>>, d |-> d]
            ELSE [ok |-> TRUE,
                  bytes |-> Slice(d.buf, start_abs, end_abs),
                  d |-> [d EXCEPT !.fixed_cursor = @ + len]]

\* Decoder::read_entry(entry_idx): [ok, v]
read_entry(d, entry_idx) ==
    LET offset_in_entries == entry_idx * 4
        var_entry_abs     == d.var_idx_offset + offset_in_entries
        var_entry_end_abs == var_entry_abs + 4
    IN  IF ~FitsU32(offset_in_entries) \/ ~FitsU32(var_entry_abs)
             \/ ~FitsU32(var_entry_end_abs)
        THEN [ok |-> FALSE, v |-> 0]
        ELSE IF var_entry_end_abs > d.data_offset \/ var_entry_end_abs > d.total_len
             THEN [ok |-> FALSE, v |-> 0]
        ELSE IF var_entry_end_abs > Len(d.buf) THEN [ok |-> FALSE, v |-> 0]
        ELSE [ok |-> TRUE,
              v  |-> from_le_bytes(Slice(d.buf, var_entry_abs, var_entry_end_abs))]

\* a next_var_index that also rewinds the fixed cursor
next_var_index_rewinds_fixed(d) ==
    IF d.var_cursor >= var_count(d) THEN [ok |-> FALSE, idx |-> 0, d |-> d]
    ELSE [ok |-> TRUE, idx |-> d.var_cursor,
          d |-> [d EXCEPT !.var_cursor = @ + 1, !.fixed_cursor = 0]]

\* a next_var_index that hands out an index without a bound on the cursor
next_var_index_unbounded(d) ==
    [ok |-> TRUE, idx |-> d.var_cursor, d |-> [d EXCEPT !.var_cursor = @ + 1]]

\* Decoder::next_var_index: [ok, idx, d]; the cursor advances on success
next_var_index(d) ==
    IF d.var_cursor >= var_count(d) THEN [ok |-> FALSE, idx |-> 0, d |-> d]
    ELSE [ok |-> TRUE, idx |-> d.var_cursor,
          d |-> [d EXCEPT !.var_cursor = @ + 1]]

\* a next_var that ends every segment at total_len
next_var_to_total_len(d) ==
    LET i == next_var_index(d)
    IN  IF ~i.ok THEN [ok |-> FALSE, bytes |-> <<>>, d |-> i.d]
        ELSE LET s == read_entry(i.d, i.idx)
             IN  IF ~s.ok \/ s.v < i.d.data_offset \/ s.v > i.d.total_len
                 THEN [ok |-> FALSE, bytes |-> <<>>, d |-> i.d]
                 ELSE [ok |-> TRUE, bytes |-> Slice(i.d.buf, s.v, i.d.total_len),
                       d |-> i.d]

\* Decoder::next_var: [ok, bytes, d].  next_var_index has advanced the cursor
\* before the entries are read and checked, so the Decoder returned with an
\* error of those checks carries the advanced cursor.
next_var(d) ==
    LET i == next_var_index(d)
    IN  IF ~i.ok THEN [ok |-> FALSE, bytes |-> <<>>, d |-> i.d]
        ELSE
        LET d1    == i.d
            idx   == i.idx
            count == var_count(d1)
            s     == read_entry(d1, idx)
        IN  IF ~s.ok THEN [ok |-> FALSE, bytes |-> <<>>, d |-> d1]
            ELSE
            LET e == IF idx + 1 < count THEN read_entry(d1, idx + 1)
                     ELSE [ok |-> TRUE, v |-> d1.total_len]
            IN  IF ~e.ok THEN [ok |-> FALSE, bytes |-> <<>>, d |-> d1]
                ELSE IF s.v < d1.data_offset \/ e.v < s.v \/ e.v > d1.total_len
                     THEN [ok |-> FALSE, bytes |-> <<>>, d |-> d1]
                ELSE IF e.v > Len(d1.buf)
                     THEN [ok |-> FALSE, bytes |-> <<>>, d |-> d1]
                ELSE [ok |-> TRUE, bytes |-> Slice(d1.buf, s.v, e.v), d |-> d1]

(***************************************************************************)
(* The caller of the core: pushes fields into an Encoder, finalizes it     *)
(* into an output buffer, constructs a Decoder with the same policy over   *)
(* the payload and reads the fields back in push order.                    *)
(***************************************************************************)
\* the fields the caller pushes: u8, u16, [u16; 2], Vec<u8>, Vec<u32>,
\* Vec<Vec<u16>> and Vec<Vec<u8>> values
FixedInputs ==
    { [kind |-> "scalar", w |-> 1, val |-> <<170>>],
      [kind |-> "scalar", w |-> 2, val |-> <<258>>],
      [kind |-> "array",  w |-> 2, val |-> <<258, 772>>] }

Var1Inputs ==
    { [kind |-> "var1", w |-> 1, val |-> <<>>],
      [kind |-> "var1", w |-> 1, val |-> <<10, 11, 12>>],
      [kind |-> "var1", w |-> 4, val |-> <<168496141, 16909060>>] }

Var2Inputs ==
    { [kind |-> "var2", w |-> 2, val |-> << <<1, 2>>, <<3>> >>],
      [kind |-> "var2", w |-> 1, val |-> << <<>>, <<7>> >>] }

\* what the output buffer holds before finalize
Prefixes == { <<>>, <<238>> }

\* the caller's record of its last Decoder call: the operation, the len it
\* passed (0 when the operation takes none) and what came back
NoResult == [op |-> "none", len |-> 0, ok |-> TRUE, bytes |-> <<>>]

\* what one field makes the reader read: one run of the Fixed region, or
\* one variable segment per inner sequence
FieldUnits(f, endian) ==
    IF IsFixedKind(f)
    THEN << [var |-> FALSE, bytes |-> push_fixed_items(f.val, f.w, endian)] >>
    ELSE [i \in 1..Len(Segs(f)) |->
            [var |-> TRUE, bytes |-> push_fixed_items(Segs(f)[i], f.w, endian)]]

RECURSIVE Units(_, _)
Units(fields, endian) ==
    IF Len(fields) = 0 THEN <<>>
    ELSE FieldUnits(Head(fields), endian) \o Units(Tail(fields), endian)

Init ==
    /\ pc = "enc"
    /\ host \in HostOrders
    /\ \E endian \in Endian : enc = Encoder_new(endian)
    /\ log = <<>>
    /\ base = 0
    /\ out = <<>>
    /\ fin = "none"
    /\ dec = NoDecoder
    /\ res = NoResult
    /\ got = <<>>
    /\ shape = <<>>
    /\ derived = [ok |-> FALSE, flags |-> <<>>]
    /\ value = <<>>
    /\ view = [ok |-> FALSE, v |-> <<>>]

\* encode_field of a scalar or an array
PushFixed ==
    /\ pc = "enc"
    /\ Len(log) < MaxPushes
    /\ \E f \in FixedInputs, is_last_var \in BOOLEAN :
          /\ enc' = encode_field(enc, f, is_last_var).e
          /\ log' = Append(log, f)
    /\ UNCHANGED <<pc, host, base, out, fin, dec, res, got, shape, derived, value, view>>

\* encode_field of a Vec<T> of fixed elements
PushVar1 ==
    /\ pc = "enc"
    /\ Len(log) < MaxPushes
    /\ \E f \in Var1Inputs, is_last_var \in BOOLEAN :
          /\ enc' = encode_field(enc, f, is_last_var).e
          /\ log' = Append(log, f)
    /\ UNCHANGED <<pc, host, base, out, fin, dec, res, got, shape, derived, value, view>>

\* encode_field of a Vec<Vec<T>>: a panic ends the caller
PushVar2 ==
    /\ pc = "enc"
    /\ Len(log) < MaxPushes
    /\ \E f \in Var2Inputs, is_last_var \in BOOLEAN :
          LET r == encode_field(enc, f, is_last_var)
          IN  /\ enc' = r.e
              /\ pc' = IF r.panic THEN "panic" ELSE "enc"
              /\ log' = IF r.panic THEN log ELSE Append(log, f)
    /\ UNCHANGED <<host, base, out, fin, dec, res, got, shape, derived, value, view>>

\* Encoder::finalize into the caller's buffer
Finalize ==
    /\ pc = "enc"
    /\ \E pre \in Prefixes :
          LET r == finalize(enc, pre)
          IN  /\ base' = Len(pre)
              /\ out' = r.out
              /\ fin' = IF r.ok THEN "ok" ELSE "err"
    /\ pc' = "fin"
    /\ UNCHANGED <<host, enc, log, dec, res, got, shape, derived, value, view>>

\* Decoder::with_endian over the payload, with the Encoder's policy
NewDecoder ==
    /\ pc = "fin"
    /\ fin = "ok"
    /\ LET r == with_endian(Slice(out, base, Len(out)), enc.endian)
       IN  /\ dec' = r.d
           /\ pc' = IF r.ok THEN "dec" ELSE "decerr"
           /\ res' = [op |-> "new", len |-> 0, ok |-> r.ok, bytes |-> <<>>]
    /\ UNCHANGED <<host, enc, log, base, out, fin, got, shape, derived, value, view>>

\* the next read of the read-back: next_fixed_bytes with the field's byte
\* length for a fixed field, next_var for a variable segment
ReadNext ==
    /\ pc = "dec"
    /\ LET units == Units(log, enc.endian)
           k     == Len(got) + 1
       IN  /\ k <= Len(units)
           /\ LET r == IF units[k].var THEN next_var(dec)
                       ELSE next_fixed_bytes(dec, Len(units[k].bytes))
              IN  /\ dec' = r.d
                  /\ res' = [op |-> IF units[k].var THEN "next_var" ELSE "next_fixed_bytes",
                             len |-> IF units[k].var THEN 0 ELSE Len(units[k].bytes),
                             ok |-> r.ok, bytes |-> r.bytes]
                  /\ got' = IF r.ok THEN Append(got, r.bytes) ELSE got
                  /\ pc' = IF r.ok THEN "dec" ELSE "readerr"
    /\ UNCHANGED <<host, enc, log, base, out, fin, shape, derived, value, view>>

Next ==
    \/ PushFixed
    \/ PushVar1
    \/ PushVar2
    \/ Finalize
    \/ NewDecoder
    \/ ReadNext

Spec == Init /\ [][Next]_vars

(***************************************************************************)
(* Claims about the Encoder and the payload it writes.                     *)
(***************************************************************************)
\* the payload finalize appended to the output buffer
Payload == Slice(out, base, Len(out))

\* the header and the VarIndex of the payload, read as the wire format
\* defines them: little-endian unsigned 32-bit integers
WireTotalLen == from_le_bytes(Slice(Payload, 0, 4))
WireVarIndexOffset == from_le_bytes(Slice(Payload, 4, 8))
WireEntry(k) ==
    from_le_bytes(Slice(Payload, 8 + Len(enc.fixed) + 4 * k,
                        8 + Len(enc.fixed) + 4 * k + 4))

\* the byte strings the pushed fields stand for, in read order
Expected == Units(log, enc.endian)
NumVarSegments == Cardinality({k \in 1..Len(Expected) : Expected[k].var})

\* C1: after pushes into a fresh little-endian Encoder and a finalize, the
\* Decoder over the payload is constructed, var_count is the number of
\* variable segments pushed, and reading the fixed fields (with their
\* widths) and the variable segments (with next_var) in push order returns
\* the pushed bytes, empty segments included.
C1_CoreRoundtrip ==
    (fin = "ok" /\ enc.endian = "Little" /\ pc \in {"dec", "decerr", "readerr"}) =>
        /\ pc = "dec"
        /\ var_count(dec) = NumVarSegments
        /\ Len(got) <= Len(Expected)
        /\ \A k \in 1..Len(got) : got[k] = Expected[k].bytes

\* a read-back that returned a fixed field, a var1 segment, and both
\* segments of a var2 tail, one of them empty
C1_Witness ==
    /\ pc = "dec" /\ fin = "ok" /\ enc.endian = "Little"
    /\ Len(got) = Len(Expected)
    /\ \E i, j, k \in 1..Len(log) :
          /\ i < j /\ j < k
          /\ IsFixedKind(log[i]) /\ log[j].kind = "var1" /\ log[k].kind = "var2"
          /\ Len(log[j].val) > 0
    /\ \E k \in 1..Len(got) : Expected[k].var /\ got[k] = <<>>
    /\ \E k \in 1..Len(got) : Expected[k].var /\ Len(got[k]) > 1

\* C2: a successful finalize into an empty buffer writes a header with
\* var_index_offset = 8 + len(fixed), 8 <= var_index_offset <= data_offset
\* <= total_len, data_offset = var_index_offset + 4 * (number of entries),
\* and total_len = the number of bytes written.
C2_HeaderConsistency ==
    (fin = "ok" /\ base = 0) =>
        LET vio  == WireVarIndexOffset
            doff == vio + 4 * Len(enc.var_length)
        IN  /\ vio = 8 + Len(enc.fixed)
            /\ 8 <= vio /\ vio <= doff /\ doff <= WireTotalLen
            /\ WireTotalLen = Len(out)

\* C3: in every finalize output the VarIndex entries are non-decreasing,
\* lie in [data_offset, total_len], the first equals data_offset,
\* consecutive entries differ by the pushed length of the segment, and
\* total_len minus the last entry is the length of the last segment.
C3_MonotoneIndex ==
    fin = "ok" =>
        LET n     == Len(enc.var_length)
            doff  == 8 + Len(enc.fixed) + 4 * n
            total == Len(Payload)
        IN  /\ \A k \in 0..(n - 1) : doff <= WireEntry(k) /\ WireEntry(k) <= total
            /\ \A k \in 0..(n - 2) :
                  /\ WireEntry(k) <= WireEntry(k + 1)
                  /\ WireEntry(k + 1) - WireEntry(k) = enc.var_length[k + 1]
            /\ n > 0 => /\ WireEntry(0) = doff
                        /\ total - WireEntry(n - 1) = enc.var_length[n]

\* C4: under every endian policy finalize writes total_len,
\* var_index_offset and every VarIndex entry as little-endian u32.
C4_StructureLittleEndian ==
    fin = "ok" =>
        LET n    == Len(enc.var_length)
            doff == 8 + Len(enc.fixed) + 4 * n
        IN  /\ Slice(Payload, 0, 4) = to_le_bytes(Len(Payload), 4)
            /\ Slice(Payload, 4, 8) = to_le_bytes(8 + Len(enc.fixed), 4)
            /\ \A k \in 0..(n - 1) :
                  Slice(Payload, 8 + Len(enc.fixed) + 4 * k,
                        8 + Len(enc.fixed) + 4 * k + 4)
                    = to_le_bytes(doff + SumSeq(SubSeq(enc.var_length, 1, k)), 4)

\* the values FixedDecode::decode gives for the items of a fixed field read
\* back as `bytes`
DecodedItems(bytes, w, endian) ==
    [i \in 1..(Len(bytes) \div w) |->
        fixed_decode(Slice(bytes, (i - 1) * w, i * w), endian)]

\* C5: a payload produced by an Encoder with the Big policy is accepted by
\* Decoder::with_endian(buf, Big), and every fixed field decoded from it
\* equals the value that was encoded.
C5_BigEndianRoundtrip ==
    (fin = "ok" /\ enc.endian = "Big" /\ pc \in {"dec", "decerr", "readerr"}) =>
        /\ pc = "dec"
        /\ dec.endian = "Big"
        /\ \A k \in 1..Len(got) :
              ~Expected[k].var =>
                 \E i \in 1..Len(log) :
                    /\ IsFixedKind(log[i])
                    /\ DecodedItems(got[k], log[i].w, dec.endian) = log[i].val

\* 4 bytes that hold the number v as an unsigned 32-bit integer
IsU32Of(bytes, v) ==
    /\ Len(bytes) = 4
    /\ (from_le_bytes(bytes) = v \/ from_be_bytes(bytes) = v)

\* the pushes fixed_u8 = 0xAA, fixed_array = [0x0102, 0x0304] (u16),
\* var_vec = [0x0A0B0C0D, 0x01020304] (u32)
ScenarioA ==
    << [kind |-> "scalar", w |-> 1, val |-> <<170>>],
       [kind |-> "array",  w |-> 2, val |-> <<258, 772>>],
       [kind |-> "var1",   w |-> 4, val |-> <<168496141, 16909060>>] >>

\* C17: finalize leaves the bytes already in the output buffer untouched
\* and appends exactly total_len (4 bytes), var_entry_offset (4 bytes), the
\* fixed region verbatim, one running absolute offset per var_lengths entry
\* (starting at data_start, increased by each length after it is emitted)
\* and the data verbatim; for ScenarioA under little-endian total_len = 25,
\* var_index_offset = 13 and the one entry is 17.
C17_FinalizeLayout ==
    (pc \notin {"enc", "panic"} /\ fin = "ok") =>
        LET p     == Payload
            n     == Len(enc.var_length)
            idx   == 8 + Len(enc.fixed)
            start == idx + 4 * n
            total == start + Len(enc.data)
        IN  /\ Slice(out, 0, base) \in Prefixes
            /\ Len(p) = total
            /\ IsU32Of(Slice(p, 0, 4), total)
            /\ IsU32Of(Slice(p, 4, 8), idx)
            /\ Slice(p, 8, idx) = enc.fixed
            /\ \A k \in 1..n :
                  IsU32Of(Slice(p, idx + 4 * (k - 1), idx + 4 * k),
                          start + SumSeq(SubSeq(enc.var_length, 1, k - 1)))
            /\ Slice(p, start, total) = enc.data
            /\ (enc.endian = "Little" /\ log = ScenarioA) =>
                  p = << 25, 0, 0, 0,  13, 0, 0, 0,  170, 2, 1, 4, 3,
                         17, 0, 0, 0,  13, 12, 11, 10, 4, 3, 2, 1 >>

\* ScenarioA has been finalized under little-endian into a buffer that
\* already held a byte
C17_Witness ==
    /\ pc = "fin"
    /\ fin = "ok"
    /\ enc.endian = "Little"
    /\ log = ScenarioA
    /\ base = 1
    /\ Len(out) = 26

\* C19: finalizing an Encoder into which nothing was pushed writes exactly
\* 8 bytes with total_len = 8 and var_index_offset = 8, and a Decoder
\* constructed over those 8 bytes succeeds with var_count = 0, after which
\* every next_var call fails with InvalidLength.
C19_EmptyPayload ==
    (log = <<>> /\ pc \notin {"enc", "panic"}) =>
        /\ fin = "ok"
        /\ Len(Payload) = 8
        /\ WireTotalLen = 8
        /\ WireVarIndexOffset = 8
        /\ pc # "decerr"
        /\ pc = "dec" => (var_count(dec) = 0 /\ ~next_var(dec).ok)

\* the var2 values encode_field is applied to: those the caller pushes and
\* the empty Vec<Vec<u16>>
Var2Values == Var2Inputs \cup { [kind |-> "var2", w |-> 2, val |-> <<>>] }

\* the var_length entries and the data bytes a var2 value adds: one entry
\* per inner sequence, in order
Var2Lengths(f) == [i \in 1..Len(f.val) |-> Len(f.val[i]) * f.w]
Var2Bytes(f, endian) ==
    Concat([i \in 1..Len(f.val) |-> push_fixed_items(f.val[i], f.w, endian)])

\* C15: encode_field with IS_LAST_VAR = false on any var2 value, an empty
\* one included, panics and leaves the Encoder's fixed, var_lengths and
\* data unchanged; with IS_LAST_VAR = true it appends one var_lengths
\* entry per inner sequence, in order.
C15_EncodePlacement ==
    [][ pc = "enc" =>
          /\ \A f \in Var2Values :
                /\ encode_field(enc, f, FALSE).panic
                /\ encode_field(enc, f, FALSE).e = enc
                /\ ~encode_field(enc, f, TRUE).panic
                /\ encode_field(enc, f, TRUE).e =
                      [enc EXCEPT !.var_length = @ \o Var2Lengths(f),
                                  !.data = @ \o Var2Bytes(f, enc.endian)]
          /\ pc' = "panic" => enc' = enc
          /\ (pc' = "enc" /\ log' # log /\ log'[Len(log')].kind = "var2") =>
                LET f == log'[Len(log')]
                IN  enc' = [enc EXCEPT !.var_length = @ \o Var2Lengths(f),
                                       !.data = @ \o Var2Bytes(f, enc.endian)] ]_vars

\* a var2 push has panicked on an Encoder that already holds a fixed field
\* and the segments of an accepted var2 push
C15_Witness ==
    /\ pc = "panic"
    /\ Len(log) = 2
    /\ log[2].kind = "var2"
    /\ Len(enc.var_length) = Len(log[2].val)
    /\ enc.fixed # <<>>

(***************************************************************************)
(* The caller of the Decoder alone: a byte buffer of any content is handed *)
(* to Decoder::with_endian, and the Decoder it returns is read with        *)
(* next_fixed_bytes, next_var and next_var_index in any order.             *)
(***************************************************************************)
\* the values of the 32-bit words that follow the header of a buffer
WordValues == {12, 16, 17, 20}
\* the values of the var_idx_offset field of a buffer
VarIdxValues == {7, 8, 9, 12}
\* the bytes that follow the words of a buffer
FillBytes == <<1, 2>>
\* the lengths asked of next_fixed_bytes
MaxReadLen == 2

\* sequences of at most n words
RECURSIVE WordSeqs(_)
WordSeqs(n) ==
    IF n = 0 THEN { <<>> }
    ELSE LET shorter == WordSeqs(n - 1)
         IN  shorter \cup { Append(ws, w) : ws \in {x \in shorter : Len(x) = n - 1},
                                            w \in WordValues }

RECURSIVE WordBytes(_)
WordBytes(ws) ==
    IF Len(ws) = 0 THEN <<>> ELSE to_le_bytes(Head(ws), 4) \o WordBytes(Tail(ws))

\* header, words and fill bytes, and every prefix of them
Buffers ==
    LET maxTotal == HEADER_LEN + 4 * MaxWords + Len(FillBytes) + 1
        full == { to_le_bytes(t, 4) \o to_le_bytes(v, 4) \o WordBytes(ws) \o FillBytes :
                     t \in 7..maxTotal, v \in VarIdxValues, ws \in WordSeqs(MaxWords) }
    IN  UNION { { SubSeq(b, 1, n) : n \in 0..Len(b) } : b \in full }

InitDec ==
    /\ pc = "buf"
    /\ host = "le"
    /\ enc = Encoder_new("Little")
    /\ log = <<>>
    /\ base = 0
    /\ out \in Buffers
    /\ fin = "none"
    /\ dec = NoDecoder
    /\ res = NoResult
    /\ got = <<>>
    /\ shape = <<>>
    /\ derived = [ok |-> FALSE, flags |-> <<>>]
    /\ value = <<>>
    /\ view = [ok |-> FALSE, v |-> <<>>]

\* Decoder::with_endian over the buffer
DecNew ==
    /\ pc = "buf"
    /\ \E endian \in Endian :
          LET r == with_endian(out, endian)
          IN  /\ dec' = r.d
              /\ pc' = IF r.ok THEN "dec" ELSE "decerr"
              /\ res' = [op |-> "new", len |-> 0, ok |-> r.ok, bytes |-> <<>>]
    /\ UNCHANGED <<host, enc, log, base, out, fin, got, shape, derived, value, view>>

\* Decoder::next_fixed_bytes(len)
DecNextFixedBytes ==
    /\ pc = "dec"
    /\ \E len \in 0..MaxReadLen :
          LET r == next_fixed_bytes(dec, len)
          IN  /\ dec' = r.d
              /\ res' = [op |-> "next_fixed_bytes", len |-> len, ok |-> r.ok, bytes |-> r.bytes]
    /\ UNCHANGED <<pc, host, enc, log, base, out, fin, got, shape, derived, value, view>>

\* Decoder::next_var
DecNextVar ==
    /\ pc = "dec"
    /\ LET r == next_var(dec)
       IN  /\ dec' = r.d
           /\ res' = [op |-> "next_var", len |-> 0, ok |-> r.ok, bytes |-> r.bytes]
    /\ UNCHANGED <<pc, host, enc, log, base, out, fin, got, shape, derived, value, view>>

\* Decoder::next_var_index
DecNextVarIndex ==
    /\ pc = "dec"
    /\ LET r == next_var_index(dec)
       IN  /\ dec' = r.d
           /\ res' = [op |-> "next_var_index", len |-> 0, ok |-> r.ok, bytes |-> <<>>]
    /\ UNCHANGED <<pc, host, enc, log, base, out, fin, got, shape, derived, value, view>>

NextDec ==
    \/ DecNew
    \/ DecNextFixedBytes
    \/ DecNextVar
    \/ DecNextVarIndex

SpecDec == InitDec /\ [][NextDec]_vars

(***************************************************************************)
(* Claims about the construction of a Decoder.                             *)
(***************************************************************************)
\* the header fields of a buffer of at least 8 bytes
BufTotalLen(b) == from_le_bytes(Slice(b, 0, 4))
BufVarIndexOffset(b) == from_le_bytes(Slice(b, 4, 8))

\* the values data_offset can have: var_index_offset when the payload ends
\* there, else the u32 at var_index_offset; where the buffer ends before
\* that u32 does, any value the missing bytes could have held
DataOffsets(b) ==
    LET total == BufTotalLen(b)
        vio   == BufVarIndexOffset(b)
    IN  IF total = vio THEN {vio}
        ELSE IF vio + 4 <= Len(b) THEN {from_le_bytes(Slice(b, vio, vio + 4))}
        ELSE 0..(Len(b) + 4)

\* the conditions under which construction is to return InvalidLength
Malformed(b) ==
    \/ Len(b) < 8
    \/ LET total == BufTotalLen(b)
           vio   == BufVarIndexOffset(b)
       IN  \/ total > Len(b)
           \/ vio < 8
           \/ vio > total
           \/ \A doff \in DataOffsets(b) :
                 \/ doff < vio
                 \/ doff > total
                 \/ (doff - vio) % 4 # 0
                 \/ (total > vio /\ doff = vio)

\* C6: Decoder construction returns InvalidLength when the buffer is
\* shorter than 8 bytes, total_len > len(buffer), var_index_offset < 8,
\* var_index_offset > total_len, data_offset < var_index_offset,
\* data_offset > total_len, the index stride is not a multiple of 4, or
\* total_len > var_index_offset while data_offset = var_index_offset; it
\* returns a Decoder otherwise.
C6_ConstructionRejectsMalformed ==
    /\ pc = "decerr" => Malformed(out)
    /\ pc = "dec" => ~Malformed(out)

\* a buffer rejected for its index stride alone, and nothing else
C6_Witness ==
    /\ pc = "decerr"
    /\ Len(out) >= 8
    /\ BufTotalLen(out) <= Len(out)
    /\ BufVarIndexOffset(out) >= 8
    /\ BufVarIndexOffset(out) < BufTotalLen(out)
    /\ \E doff \in DataOffsets(out) :
          /\ DataOffsets(out) = {doff}
          /\ doff > BufVarIndexOffset(out)
          /\ doff <= BufTotalLen(out)
          /\ (doff - BufVarIndexOffset(out)) % 4 # 0

\* VarIndex entry k (from 0) of the buffer a Decoder was constructed over
BufEntry(d, k) ==
    from_le_bytes(Slice(d.buf, d.var_idx_offset + 4 * k, d.var_idx_offset + 4 * k + 4))

\* the structural invariants of the header
HeaderValid(d) ==
    /\ 8 <= d.var_idx_offset
    /\ d.var_idx_offset <= d.data_offset
    /\ d.data_offset <= d.total_len
    /\ d.total_len <= Len(d.buf)
    /\ (d.data_offset - d.var_idx_offset) % 4 = 0
    /\ d.total_len > d.var_idx_offset => var_count(d) >= 1

\* the structural invariants of the VarIndex entries
EntriesValid(d) ==
    /\ \A k \in 0..(var_count(d) - 1) :
          d.data_offset <= BufEntry(d, k) /\ BufEntry(d, k) <= d.total_len
    /\ \A k \in 0..(var_count(d) - 2) : BufEntry(d, k) <= BufEntry(d, k + 1)

\* C7 as stated: a buffer that construction accepts satisfies every
\* structural invariant of a valid payload, the range and the order of
\* every VarIndex entry included.
C7_UpFrontValidation ==
    pc = "dec" => HeaderValid(dec) /\ EntriesValid(dec)

\* C7 as amended: a buffer that construction accepts satisfies the
\* structural invariants of the header, and its first VarIndex entry, when
\* there is one, equals data_offset; the later entries are checked when
\* next_var reads them: a next_var that succeeds returned buf[start..end]
\* with data_offset <= start <= end <= total_len.
C7_HeaderValidation ==
    pc = "dec" =>
        /\ HeaderValid(dec)
        /\ dec.buf = out
        /\ dec.total_len = BufTotalLen(out)
        /\ dec.var_idx_offset = BufVarIndexOffset(out)
        /\ var_count(dec) >= 1 => BufEntry(dec, 0) = dec.data_offset
        /\ (res.op = "next_var" /\ res.ok) =>
              LET c     == dec.var_cursor - 1
                  start == BufEntry(dec, c)
                  end   == IF c + 1 < var_count(dec) THEN BufEntry(dec, c + 1)
                           ELSE dec.total_len
              IN  /\ dec.data_offset <= start /\ start <= end
                  /\ end <= dec.total_len
                  /\ res.bytes = Slice(dec.buf, start, end)

\* an accepted buffer whose second entry lies beyond total_len, on which
\* the first next_var has failed
C7_Witness ==
    /\ pc = "dec"
    /\ var_count(dec) = 2
    /\ BufEntry(dec, 1) > dec.total_len
    /\ res.op = "next_var" /\ ~res.ok

\* C13: next_fixed_bytes(len) on a constructed Decoder succeeds exactly
\* when fixed_cursor + len <= var_index_offset - 8; on success it returns
\* buf[8 + fixed_cursor .. 8 + fixed_cursor + len] and advances
\* fixed_cursor by len; otherwise it returns InvalidLength.
C13_NextFixedBytes ==
    [][ (pc = "dec" /\ res'.op = "next_fixed_bytes") =>
            LET len == res'.len
                fc  == dec.fixed_cursor
            IN  IF fc + len <= dec.var_idx_offset - 8
                THEN /\ res'.ok
                     /\ res'.bytes = Slice(dec.buf, 8 + fc, 8 + fc + len)
                     /\ Len(res'.bytes) = len
                     /\ dec'.fixed_cursor = fc + len
                ELSE ~res'.ok ]_vars

\* next_fixed_bytes has advanced the cursor into a non-empty Fixed region
\* and a later call that overruns it has failed
C13_Witness ==
    /\ pc = "dec"
    /\ res.op = "next_fixed_bytes"
    /\ ~res.ok
    /\ dec.fixed_cursor > 0
    /\ dec.fixed_cursor + res.len > dec.var_idx_offset - 8

\* C14: next_var with var_cursor = c returns InvalidLength if
\* c >= var_count; otherwise start = entry[c], end = entry[c+1] when
\* c+1 < var_count, else total_len; it returns buf[start..end] and sets
\* var_cursor to c+1 when data_offset <= start <= end <= total_len, and
\* returns InvalidLength when that ordering is violated.
C14_NextVar ==
    [][ (pc = "dec" /\ res'.op = "next_var") =>
            LET c     == dec.var_cursor
                count == (dec.data_offset - dec.var_idx_offset) \div 4
            IN  IF c >= count THEN ~res'.ok
                ELSE LET start == BufEntry(dec, c)
                         end   == IF c + 1 < count THEN BufEntry(dec, c + 1)
                                  ELSE dec.total_len
                     IN  IF dec.data_offset <= start /\ start <= end
                            /\ end <= dec.total_len
                         THEN /\ res'.ok
                              /\ res'.bytes = Slice(dec.buf, start, end)
                              /\ dec'.var_cursor = c + 1
                         ELSE ~res'.ok ]_vars

\* next_var has returned a non-empty first segment that ends where the
\* second entry points
C14_Witness ==
    /\ pc = "dec"
    /\ res.op = "next_var"
    /\ res.ok
    /\ dec.var_cursor = 1
    /\ var_count(dec) = 2
    /\ Len(res.bytes) > 0
    /\ BufEntry(dec, 1) < dec.total_len

(***************************************************************************)
(* The derive macros (macros/src/common.rs, encode.rs, decode.rs).         *)
(*                                                                         *)
(* A field type is a term: [c |-> "prim", w], [c |-> "array", elem, n],    *)
(* [c |-> "Vec", arg] or [c |-> "rec", fields], the last a named-field     *)
(* record that derives Encode and Decode itself.  A value of a primitive   *)
(* is an integer, of an array or a Vec the sequence of its items, of a     *)
(* record the sequence of its fields' values.                              *)
(***************************************************************************)
Prim(w) == [c |-> "prim", w |-> w]
Array(elem, n) == [c |-> "array", elem |-> elem, n |-> n]
Vec(arg) == [c |-> "Vec", arg |-> arg]
Rec(fields) == [c |-> "rec", fields |-> fields]

\* vec_inner_type: Some(the argument) of a type written Vec<..>, else None
vec_inner_type(ty) ==
    IF ty.c = "Vec" THEN [some |-> TRUE, ty |-> ty.arg]
    ELSE [some |-> FALSE, ty |-> ty]

\* field_var_kind: the nesting of Vec constructors decides the kind
field_var_kind(ty) ==
    LET inner == vec_inner_type(ty)
    IN  IF ~inner.some THEN "None"
        ELSE IF vec_inner_type(inner.ty).some THEN "Var2"
        ELSE "Var1"

\* a check that passes as soon as one var2 field is the last variable field
var2_placement_ok_any(var2_indices, last_var_index) ==
    var2_indices = {} \/ \E idx \in var2_indices : idx = last_var_index

\* the loop of collect_fields over var2_indices: no var2 field may differ
\* from the last variable field
var2_placement_ok(var2_indices, last_var_index) ==
    \A idx \in var2_indices : idx = last_var_index

\* collect_fields on the field types of a named-field struct: [ok, flags];
\* last_var_index is 1-based, 0 stands for None
collect_fields(field_types) ==
    LET n == Len(field_types)
        var_field_indices == {i \in 1..n : field_var_kind(field_types[i]) \in {"Var1", "Var2"}}
        var2_indices == {i \in 1..n : field_var_kind(field_types[i]) = "Var2"}
        last_var_index ==
            IF var_field_indices = {}
            THEN (IF n = 0 THEN 0 ELSE n)
            ELSE CHOOSE i \in var_field_indices : \A j \in var_field_indices : j <= i
    IN  IF last_var_index # 0 /\ ~var2_placement_ok(var2_indices, last_var_index)
        THEN [ok |-> FALSE, flags |-> <<>>]
        ELSE [ok |-> TRUE, flags |-> [i \in 1..n |-> i = last_var_index]]

\* T::LENGTH of a fixed type
RECURSIVE LENGTH(_)
LENGTH(ty) == IF ty.c = "prim" THEN ty.w ELSE LENGTH(ty.elem) * ty.n

\* the field [kind, w, val] that a value of a primitive, array or Vec type
\* is to the Encode impls of encode.rs
AsField(ty, v) ==
    CASE ty.c = "prim"  -> [kind |-> "scalar", w |-> ty.w, val |-> <<v>>]
      [] ty.c = "array" -> [kind |-> "array", w |-> ty.elem.w, val |-> v]
      [] ty.c = "Vec" /\ ty.arg.c = "prim" -> [kind |-> "var1", w |-> ty.arg.w, val |-> v]
      [] ty.c = "Vec" /\ ty.arg.c = "Vec"  -> [kind |-> "var2", w |-> ty.arg.arg.w, val |-> v]

RECURSIVE derived_encode_field(_, _, _, _)
RECURSIVE encode_fields(_, _, _, _, _)

\* the generated statements self.f.encode_field::<flag>(&mut nested_encoder),
\* from field i on; a panic of one ends them
encode_fields(e, field_types, vals, flags, i) ==
    IF i > Len(field_types) THEN [panic |-> FALSE, e |-> e]
    ELSE LET ty == field_types[i]
             r  == IF ty.c = "rec"
                   THEN derived_encode_field(e, ty, vals[i], flags[i])
                   ELSE encode_field(e, AsField(ty, vals[i]), flags[i])
         IN  IF r.panic THEN r
             ELSE encode_fields(r.e, field_types, vals, flags, i + 1)

\* a generated encode_field that appends the nested payload to the outer
\* Fixed region instead of pushing it as a variable segment
derived_encode_field_into_fixed(e, ty, v, is_last_var) ==
    LET flags  == collect_fields(ty.fields).flags
        nested == encode_fields(Encoder_new(e.endian), ty.fields, v, flags, 1)
    IN  IF nested.panic THEN [panic |-> TRUE, e |-> e]
        ELSE [panic |-> FALSE,
              e |-> [e EXCEPT !.fixed = @ \o finalize(nested.e, <<>>).out]]

\* the encode_field that expand_encode generates for a record: the fields
\* go into a nested Encoder with the outer policy, its finalized payload
\* (the result of finalize is not looked at) is pushed as a Vec<u8>
derived_encode_field(e, ty, v, is_last_var) ==
    LET flags  == collect_fields(ty.fields).flags
        nested == encode_fields(Encoder_new(e.endian), ty.fields, v, flags, 1)
    IN  IF nested.panic THEN [panic |-> TRUE, e |-> e]
        ELSE LET nested_payload == finalize(nested.e, <<>>).out
             IN  encode_field(e, [kind |-> "var1", w |-> 1, val |-> nested_payload],
                              is_last_var)

\* a decode_fixed_slice that decodes the whole items of the slice and drops
\* the bytes left over
decode_fixed_slice_truncating(bytes, w, endian) ==
    IF w = 0 THEN [ok |-> FALSE, v |-> <<>>]
    ELSE [ok |-> TRUE,
          v  |-> [i \in 1..(Len(bytes) \div w) |->
                    fixed_decode(Slice(bytes, (i - 1) * w, i * w), endian)]]

\* decode_fixed_slice::<T>: the items of a byte slice, InvalidLength when
\* its length is not a multiple of T::LENGTH
decode_fixed_slice(bytes, w, endian) ==
    IF w = 0 \/ Len(bytes) % w # 0 THEN [ok |-> FALSE, v |-> <<>>]
    ELSE [ok |-> TRUE,
          v  |-> [i \in 1..(Len(bytes) \div w) |->
                    fixed_decode(Slice(bytes, (i - 1) * w, i * w), endian)]]

\* the view of a variable segment: the borrowed bytes for Vec<u8>, the
\* decoded items for Vec<T>
decode_segment(bytes, w, endian) ==
    IF w = 1 THEN [ok |-> TRUE, v |-> bytes] ELSE decode_fixed_slice(bytes, w, endian)

\* a var2 decode that reads one segment and stops, leaving the rest of the
\* VarIndex unread
decode_var2_first_only(d, w, acc) ==
    IF d.var_cursor < var_count(d)
    THEN LET r == next_var(d)
         IN  IF ~r.ok THEN [ok |-> FALSE, v |-> <<>>, d |-> r.d]
             ELSE LET items == decode_segment(r.bytes, w, d.endian)
                  IN  IF ~items.ok THEN [ok |-> FALSE, v |-> <<>>, d |-> r.d]
                      ELSE [ok |-> TRUE, v |-> Append(acc, items.v), d |-> r.d]
    ELSE [ok |-> TRUE, v |-> acc, d |-> d]

RECURSIVE decode_var2_loop(_, _, _)
\* the loop `while decoder.var_cursor < count` of Decode for Vec<Vec<T>>
decode_var2_loop(d, w, acc) ==
    IF d.var_cursor < var_count(d)
    THEN LET r == next_var(d)
         IN  IF ~r.ok THEN [ok |-> FALSE, v |-> <<>>, d |-> r.d]
             ELSE LET items == decode_segment(r.bytes, w, d.endian)
                  IN  IF ~items.ok THEN [ok |-> FALSE, v |-> <<>>, d |-> r.d]
                      ELSE decode_var2_loop(r.d, w, Append(acc, items.v))
    ELSE [ok |-> TRUE, v |-> acc, d |-> d]

\* a Decode for Vec<Vec<T>> that runs the loop whatever IS_LAST_VAR is
decode_field_var2_unchecked(d, w, is_last_var) ==
    decode_var2_loop(d, w, <<>>)

\* Decode for Vec<Vec<T>> and Vec<Vec<u8>>: InvalidLength unless
\* IS_LAST_VAR, before the Decoder is touched
decode_field_var2(d, w, is_last_var) ==
    IF ~is_last_var THEN [ok |-> FALSE, v |-> <<>>, d |-> d]
    ELSE decode_var2_loop(d, w, <<>>)

\* Decode::decode_field::<IS_LAST_VAR> for the primitive, array and Vec
\* types of decode.rs: [ok, v, d]
decode_field(d, ty, is_last_var) ==
    CASE ty.c = "prim" ->
            LET r == next_fixed_bytes(d, LENGTH(ty))
            IN  IF ~r.ok THEN [ok |-> FALSE, v |-> <<>>, d |-> r.d]
                ELSE [ok |-> TRUE, v |-> fixed_decode(r.bytes, d.endian), d |-> r.d]
      [] ty.c = "array" ->
            LET r == next_fixed_bytes(d, LENGTH(ty.elem) * ty.n)
            IN  IF ~r.ok THEN [ok |-> FALSE, v |-> <<>>, d |-> r.d]
                ELSE LET items == decode_fixed_slice(r.bytes, LENGTH(ty.elem), d.endian)
                     IN  IF ~items.ok \/ Len(items.v) # ty.n
                         THEN [ok |-> FALSE, v |-> <<>>, d |-> r.d]
                         ELSE [ok |-> TRUE, v |-> items.v, d |-> r.d]
      [] ty.c = "Vec" /\ ty.arg.c = "prim" ->
            LET r == next_var(d)
            IN  IF ~r.ok THEN [ok |-> FALSE, v |-> <<>>, d |-> r.d]
                ELSE LET items == decode_segment(r.bytes, ty.arg.w, d.endian)
                     IN  [ok |-> items.ok, v |-> items.v, d |-> r.d]
      [] ty.c = "Vec" /\ ty.arg.c = "Vec" ->
            decode_field_var2(d, ty.arg.arg.w, is_last_var)

RECURSIVE derived_decode_field(_, _, _)
RECURSIVE decode_fields(_, _, _, _, _)

\* the generated statements let f = <T as Decode>::decode_field::<flag>(
\* &mut nested_decoder)?, from field i on: [ok, v]
decode_fields(d, field_types, flags, i, acc) ==
    IF i > Len(field_types) THEN [ok |-> TRUE, v |-> acc]
    ELSE LET ty == field_types[i]
             r  == IF ty.c = "rec" THEN derived_decode_field(d, ty, flags[i])
                   ELSE decode_field(d, ty, flags[i])
         IN  IF ~r.ok THEN [ok |-> FALSE, v |-> <<>>]
             ELSE decode_fields(r.d, field_types, flags, i + 1, Append(acc, r.v))

\* the decode_field that expand_decode generates for a record: one Vec<u8>
\* segment of the outer Decoder, Decoder::new over it, then the fields
derived_decode_field(d, ty, is_last_var) ==
    LET nested_payload == next_var(d)
    IN  IF ~nested_payload.ok THEN [ok |-> FALSE, v |-> <<>>, d |-> nested_payload.d]
        ELSE LET nested_decoder == with_endian(nested_payload.bytes, "Little")
             IN  IF ~nested_decoder.ok
                 THEN [ok |-> FALSE, v |-> <<>>, d |-> nested_payload.d]
                 ELSE LET r == decode_fields(nested_decoder.d, ty.fields,
                                             collect_fields(ty.fields).flags, 1, <<>>)
                      IN  [ok |-> r.ok, v |-> r.v, d |-> nested_payload.d]

(***************************************************************************)
(* The user of the derive macros: declares a record, derives Encode and    *)
(* Decode for it, encodes a value of it into a little-endian Encoder,      *)
(* finalizes, and decodes the payload with the derived decode_field.       *)
(***************************************************************************)
\* the field types a declared record draws from: u8, u16, Vec<u8>,
\* Vec<u16>, Vec<Vec<u8>> and two records that derive Encode and Decode
FieldTypes ==
    { Prim(1), Prim(2), Vec(Prim(1)), Vec(Prim(2)), Vec(Vec(Prim(1))),
      Rec(<<Prim(2), Vec(Prim(1))>>),
      Rec(<<Prim(1), Vec(Vec(Prim(2)))>>) }

RECURSIVE Shapes(_)
\* the field lists of at most n fields
Shapes(n) ==
    IF n = 0 THEN { <<>> }
    ELSE LET shorter == Shapes(n - 1)
         IN  shorter \cup { Append(sh, ty) : sh \in {x \in shorter : Len(x) = n - 1},
                                             ty \in FieldTypes }

RECURSIVE ValuesOf(_)
RECURSIVE RecordValues(_)

\* the values of a type that the user encodes
ValuesOf(ty) ==
    CASE ty.c = "prim" /\ ty.w = 1 -> {66}
      [] ty.c = "prim" /\ ty.w = 2 -> {4660}
      [] ty.c = "Vec" /\ ty.arg.c = "prim" /\ ty.arg.w = 1 -> { <<>>, <<26, 27, 28>> }
      [] ty.c = "Vec" /\ ty.arg.c = "prim" /\ ty.arg.w = 2 -> { <<>>, <<2571, 3085>> }
      [] ty.c = "Vec" /\ ty.arg.c = "Vec" -> { <<>>, << <<1, 2>>, <<>>, <<3>> >> }
      [] ty.c = "rec" -> RecordValues(ty.fields)

RecordValues(field_types) ==
    IF Len(field_types) = 0 THEN { <<>> }
    ELSE { <<v>> \o rest : v \in ValuesOf(Head(field_types)),
                           rest \in RecordValues(Tail(field_types)) }

NoDerive == [ok |-> FALSE, flags |-> <<>>]
NoView == [ok |-> FALSE, v |-> <<>>]

InitDerive ==
    /\ pc = "declared"
    /\ host = "le"
    /\ enc = Encoder_new("Little")
    /\ log = <<>>
    /\ base = 0
    /\ out = <<>>
    /\ fin = "none"
    /\ dec = NoDecoder
    /\ res = NoResult
    /\ got = <<>>
    /\ shape \in Shapes(MaxFields)
    /\ derived = NoDerive
    /\ value = <<>>
    /\ view = NoView

\* #[derive(Encode, Decode)]: collect_fields accepts or rejects the shape
Derive ==
    /\ pc = "declared"
    /\ derived' = collect_fields(shape)
    /\ pc' = IF derived'.ok THEN "derived" ELSE "rejected"
    /\ UNCHANGED <<host, enc, log, base, out, fin, dec, res, got, shape, value, view>>

\* value.encode_field::<true>(&mut encoder) with the derived impl
EncodeRecord ==
    /\ pc = "derived"
    /\ \E v \in RecordValues(shape) :
          LET r == derived_encode_field(enc, Rec(shape), v, TRUE)
          IN  /\ value' = v
              /\ enc' = r.e
              /\ pc' = IF r.panic THEN "panic" ELSE "encoded"
    /\ UNCHANGED <<host, log, base, out, fin, dec, res, got, shape, derived, view>>

\* encoder.finalize(&mut out) into an empty buffer
FinalizeRecord ==
    /\ pc = "encoded"
    /\ LET r == finalize(enc, <<>>)
       IN  /\ out' = r.out
           /\ fin' = IF r.ok THEN "ok" ELSE "err"
    /\ pc' = "fin"
    /\ UNCHANGED <<host, enc, log, base, dec, res, got, shape, derived, value, view>>

\* T::decode_field::<true>(&mut decoder) with the derived impl
DecodeRecord ==
    /\ pc = "dec"
    /\ LET r == derived_decode_field(dec, Rec(shape), TRUE)
       IN  /\ view' = [ok |-> r.ok, v |-> r.v]
           /\ dec' = r.d
    /\ pc' = "decoded"
    /\ UNCHANGED <<host, enc, log, base, out, fin, res, got, shape, derived, value>>

NextDerive ==
    \/ Derive
    \/ EncodeRecord
    \/ FinalizeRecord
    \/ NewDecoder
    \/ DecodeRecord

SpecDerive == InitDerive /\ [][NextDerive]_vars

(***************************************************************************)
(* Claims about the derive macros, checked under SpecDerive.               *)
(***************************************************************************)
\* the positions of the Vec<Vec<_>> fields of the declared record
Var2Positions == { i \in 1..Len(shape) : field_var_kind(shape[i]) = "Var2" }

\* C8: derivation rejects every record shape in which a var2 field
\* (Vec<Vec<_>>) is followed by any other field, whether fixed, var1, var2
\* or nested record.
C8_RejectsFieldAfterVar2 ==
    (pc # "declared" /\ \E i \in Var2Positions : i < Len(shape)) => ~derived.ok

\* C9: every record shape that derivation accepts has at most one var2
\* field; a shape with two or more Vec<Vec<_>> fields is always rejected.
C9_AtMostOneVar2 ==
    /\ derived.ok => Cardinality(Var2Positions) <= 1
    /\ (pc # "declared" /\ Cardinality(Var2Positions) >= 2) => pc = "rejected"

\* a shape with two Vec<Vec<_>> fields has been through derivation and
\* was rejected
C9_Witness ==
    /\ pc = "rejected"
    /\ Cardinality(Var2Positions) >= 2
    /\ ~derived.ok

\* C10: for every accepted record shape and every value of it, encoding
\* with the derived encode_field into a little-endian Encoder, finalizing
\* and decoding with the derived decode_field succeeds and yields a view
\* equal to the value field by field.
C10_DerivedRoundtrip ==
    /\ pc # "panic"
    /\ pc = "fin" => fin = "ok"
    /\ pc # "decerr"
    /\ pc = "decoded" => (view.ok /\ view.v = value)

\* the bytes a field adds to the Fixed region of its record
FieldFixedBytes(ty, v, endian) ==
    CASE ty.c = "prim"  -> push_fixed_items(<<v>>, ty.w, endian)
      [] ty.c = "array" -> push_fixed_items(v, ty.elem.w, endian)
      [] OTHER          -> <<>>

RECURSIVE StandalonePayload(_, _, _)

\* the variable segments a field adds to its record: one for a Vec<T>, one
\* per inner sequence for a Vec<Vec<T>>, and for a nested record one
\* segment holding the record's own standalone payload
FieldSegments(ty, v, endian) ==
    CASE ty.c = "Vec" /\ ty.arg.c = "prim" ->
            << push_fixed_items(v, ty.arg.w, endian) >>
      [] ty.c = "Vec" /\ ty.arg.c = "Vec" ->
            [i \in 1..Len(v) |-> push_fixed_items(v[i], ty.arg.arg.w, endian)]
      [] ty.c = "rec" -> << StandalonePayload(ty.fields, v, endian) >>
      [] OTHER -> <<>>

\* the payload of a record value laid out region by region: header, the
\* fixed fields in declared order, one absolute offset per segment in
\* declared order, the segments
StandalonePayload(field_types, vals, endian) ==
    LET n        == Len(field_types)
        fixed    == Concat([i \in 1..n |-> FieldFixedBytes(field_types[i], vals[i], endian)])
        segs     == Concat([i \in 1..n |-> FieldSegments(field_types[i], vals[i], endian)])
        idx      == HEADER_FIELDS_LEN + Len(fixed)
        start    == idx + 4 * Len(segs)
        lens     == [k \in 1..Len(segs) |-> Len(segs[k])]
        offsets  == [k \in 1..Len(segs) |-> start + SumSeq(SubSeq(lens, 1, k - 1))]
        total    == start + SumSeq(lens)
    IN  write_u32_endian(<<>>, total, endian) \o write_u32_endian(<<>>, idx, endian)
        \o fixed
        \o Concat([k \in 1..Len(segs) |-> write_u32_endian(<<>>, offsets[k], endian)])
        \o Concat(segs)

\* C11: the derived encode_field of a record appends nothing to the outer
\* Encoder's fixed region and exactly one entry to its var_lengths, and the
\* segment appended to the outer data is the standalone payload of the
\* record: its fields in declared order, a nested record as one segment,
\* the fields after it in declared order in the VarIndex.
C11_NestedAsOneVar1 ==
    pc = "encoded" =>
        LET payload == StandalonePayload(shape, value, enc.endian)
        IN  /\ enc.fixed = <<>>
            /\ enc.var_length = << Len(payload) >>
            /\ enc.data = payload

\* a record with a fixed field, then a nested record, then a Vec field has
\* been encoded
C11_Witness ==
    /\ pc = "encoded"
    /\ \E i, j, k \in 1..Len(shape) :
          /\ i < j /\ j < k
          /\ shape[i].c = "prim"
          /\ shape[j].c = "rec"
          /\ shape[k].c = "Vec"
    /\ Len(enc.var_length) = 1

(***************************************************************************)
(* The user of the derive macros under every endian policy: the Encoder    *)
(* is built with the policy, and NewDecoder builds the Decoder with it.    *)
(***************************************************************************)
\* number of fields of a record declared under a chosen policy
MaxPolicyFields == 2

InitDerivePolicy ==
    /\ pc = "declared"
    /\ host \in HostOrders
    /\ \E endian \in Endian : enc = Encoder_new(endian)
    /\ log = <<>>
    /\ base = 0
    /\ out = <<>>
    /\ fin = "none"
    /\ dec = NoDecoder
    /\ res = NoResult
    /\ got = <<>>
    /\ shape \in Shapes(MaxPolicyFields)
    /\ derived = NoDerive
    /\ value = <<>>
    /\ view = NoView

SpecDerivePolicy == InitDerivePolicy /\ [][NextDerive]_vars

\* C12: for every policy P in {Little, Big, Native} the derived encode_field
\* encodes the record's fields with the outer Encoder's policy P and the
\* derived decode_field on a Decoder with policy P decodes them, and those
\* of the records nested inside, under P: a derived record roundtrips
\* under every policy.
C12_PolicyReachesNested ==
    /\ pc # "decerr"
    /\ pc = "decoded" => (view.ok /\ view.v = value)

(***************************************************************************)
(* The caller of the Decode trait: constructs a Decoder over a buffer and  *)
(* calls T::decode_field::<IS_LAST_VAR> on it for types T of decode.rs.    *)
(* shape holds the type of the last call, derived.flags its IS_LAST_VAR,   *)
(* view what it returned.                                                  *)
(***************************************************************************)
\* the types decode_field is called for: u16, [u16; 1], [u16; 2], Vec<u8>,
\* Vec<u16>, Vec<Vec<u8>>, Vec<Vec<u16>>
DecodeTypes ==
    { Prim(2), Array(Prim(2), 1), Array(Prim(2), 2), Vec(Prim(1)), Vec(Prim(2)),
      Vec(Vec(Prim(1))), Vec(Vec(Prim(2))) }

\* T::decode_field::<IS_LAST_VAR>(&mut decoder)
DecDecodeField ==
    /\ pc = "dec"
    /\ \E ty \in DecodeTypes, is_last_var \in BOOLEAN :
          LET r == decode_field(dec, ty, is_last_var)
          IN  /\ dec' = r.d
              /\ shape' = <<ty>>
              /\ derived' = [ok |-> TRUE, flags |-> <<is_last_var>>]
              /\ view' = [ok |-> r.ok, v |-> r.v]
              /\ res' = [op |-> "decode_field", len |-> 0, ok |-> r.ok, bytes |-> <<>>]
    /\ UNCHANGED <<pc, host, enc, log, base, out, fin, got, value>>

\* the buffers handed to the Decoder: those whose header gives their own
\* length as total_len, whatever their var_index_offset and entries
DecodeBuffers ==
    { b \in Buffers : Len(b) >= HEADER_LEN /\ from_le_bytes(Slice(b, 0, 4)) = Len(b) }

InitDecode ==
    /\ pc = "buf"
    /\ host = "le"
    /\ enc = Encoder_new("Little")
    /\ log = <<>>
    /\ base = 0
    /\ out \in DecodeBuffers
    /\ fin = "none"
    /\ dec = NoDecoder
    /\ res = NoResult
    /\ got = <<>>
    /\ shape = <<>>
    /\ derived = NoDerive
    /\ value = <<>>
    /\ view = NoView

NextDecode ==
    \/ DecNew
    \/ DecDecodeField

SpecDecode == InitDecode /\ [][NextDecode]_vars

\* C16: decode_field with IS_LAST_VAR = false for a var2 type returns
\* InvalidLength in every Decoder state and changes neither fixed_cursor
\* nor var_cursor.
C16_DecodePlacement ==
    [][ (pc = "dec" /\ res'.op = "decode_field"
         /\ field_var_kind(shape'[1]) = "Var2" /\ derived'.flags = <<FALSE>>) =>
            /\ ~res'.ok
            /\ ~view'.ok
            /\ dec' = dec ]_vars

\* a var2 decode_field with IS_LAST_VAR = false has failed on a Decoder
\* whose next variable segment is there to be read
C16_Witness ==
    /\ pc = "dec"
    /\ res.op = "decode_field"
    /\ field_var_kind(shape[1]) = "Var2"
    /\ derived.flags = <<FALSE>>
    /\ ~res.ok
    /\ dec.var_cursor < var_count(dec)
    /\ next_var(dec).ok

\* C20: decoding a var1 field of fixed elements of width W > 1 from a
\* segment whose byte length is not a multiple of W returns InvalidLength,
\* and decoding a fixed array [T; N] when fewer than N * sizeof(T) bytes
\* remain in the Fixed region returns InvalidLength; a segment whose length
\* is a multiple of W (zero included) decodes to exactly length / W
\* elements.
C20_ElementWidthCheck ==
    [][ (pc = "dec" /\ res'.op = "decode_field") =>
          LET ty == shape'[1]
          IN  /\ (ty.c = "Vec" /\ ty.arg.c = "prim" /\ ty.arg.w > 1) =>
                    LET seg == next_var(dec)
                        w   == ty.arg.w
                    IN  seg.ok =>
                          IF Len(seg.bytes) % w # 0 THEN ~res'.ok
                          ELSE /\ res'.ok
                               /\ Len(view'.v) = Len(seg.bytes) \div w
                               /\ \A i \in 1..Len(view'.v) :
                                     view'.v[i] = fixed_decode(
                                        Slice(seg.bytes, (i - 1) * w, i * w), dec.endian)
              /\ (ty.c = "array"
                  /\ ty.n * ty.elem.w > dec.var_idx_offset - 8 - dec.fixed_cursor) =>
                    ~res'.ok ]_vars

\* decode_field of Vec<u16> has failed on a segment of odd length that
\* next_var handed out
C20_Witness ==
    /\ pc = "dec"
    /\ res.op = "decode_field"
    /\ shape = << Vec(Prim(2)) >>
    /\ ~res.ok
    /\ dec.var_cursor >= 1
    /\ LET c     == dec.var_cursor - 1
           start == BufEntry(dec, c)
           end   == IF c + 1 < var_count(dec) THEN BufEntry(dec, c + 1)
                    ELSE dec.total_len
       IN  /\ dec.data_offset <= start
           /\ start <= end
           /\ end <= dec.total_len
           /\ (end - start) % 2 = 1

(***************************************************************************)
(* Payloads too large for a u32.  Byte strings of this size are kept as    *)
(* their lengths: a size is [hi, lo] and stands for hi * 65536 + lo, which *)
(* holds a usize length up to 2^47; a u32 is a size with hi < 65536.  The  *)
(* Encoder is kept as the sizes of its regions, enc = [fixed, var_length,  *)
(* data] with var_length the u32 entries, and out is what finalize wrote:  *)
(* the header values, the entries and the number of bytes.                 *)
(***************************************************************************)
Size(hi, lo) == [hi |-> hi + lo \div 65536, lo |-> lo % 65536]
SizeOf(n) == Size(0, n)
SizeAdd(a, b) == Size(a.hi + b.hi, a.lo + b.lo)

\* u32::try_from(n).is_ok() and checked_add(..).is_some() on sizes
SizeFitsU32(a) == a.hi < 65536

\* `length as u32`: the low 32 bits
as_u32(a) == [hi |-> a.hi % 65536, lo |-> a.lo]

RECURSIVE SizeSum(_)
SizeSum(s) == IF Len(s) = 0 THEN SizeOf(0) ELSE SizeAdd(Head(s), SizeSum(Tail(s)))

\* Encoder::new, as sizes
EncoderSizes_new == [fixed |-> SizeOf(0), var_length |-> <<>>, data |-> SizeOf(0)]

\* Encode for [u8; N]: N bytes into the fixed region
push_fixed_size(e, n) == [e EXCEPT !.fixed = SizeAdd(@, n)]

\* Encode for Vec<u8> of n bytes: n bytes into data, the entry `length as u32`
push_var1_size(e, n) ==
    [e EXCEPT !.data = SizeAdd(@, n), !.var_length = Append(@, as_u32(n))]

RECURSIVE write_entry_sizes(_, _, _, _)
\* the loop of finalize over var_length, on sizes: [ok, entries, written]
write_entry_sizes(lens, cur, entries, written) ==
    IF Len(lens) = 0 THEN [ok |-> TRUE, entries |-> entries, written |-> written]
    ELSE LET nxt == SizeAdd(cur, Head(lens))
         IN  IF ~SizeFitsU32(nxt)
             THEN [ok |-> FALSE, entries |-> Append(entries, cur),
                   written |-> SizeAdd(written, SizeOf(4))]
             ELSE write_entry_sizes(Tail(lens), nxt, Append(entries, cur),
                                    SizeAdd(written, SizeOf(4)))

NoWritten ==
    [ok |-> FALSE, total_len |-> SizeOf(0), var_entry_offset |-> SizeOf(0),
     entries |-> <<>>, written |-> SizeOf(0)]

\* Encoder::finalize on sizes: [ok, total_len, var_entry_offset, entries,
\* written], written the number of bytes appended to out, error or not
finalize_sizes(e) ==
    LET fixed_len     == e.fixed
        var_entry_len == SizeOf(4 * Len(e.var_length))
        data_len      == e.data
        s1 == SizeAdd(SizeOf(HEADER_FIELDS_LEN), fixed_len)
        s2 == SizeAdd(s1, var_entry_len)
        total_len == SizeAdd(s2, data_len)
    IN  IF ~(SizeFitsU32(fixed_len) /\ SizeFitsU32(var_entry_len) /\ SizeFitsU32(data_len))
        THEN NoWritten
        ELSE IF ~(SizeFitsU32(s1) /\ SizeFitsU32(s2) /\ SizeFitsU32(total_len))
        THEN NoWritten
        ELSE LET w == write_entry_sizes(e.var_length, s2, <<>>,
                                        SizeAdd(SizeOf(HEADER_FIELDS_LEN), fixed_len))
             IN  [ok |-> w.ok, total_len |-> total_len, var_entry_offset |-> s1,
                  entries |-> w.entries,
                  written |-> IF w.ok THEN SizeAdd(w.written, data_len) ELSE w.written]

\* the generated encode_field of a record whose fields filled the nested
\* Encoder: finalize into nested_payload, result not looked at, then
\* nested_payload pushed as a Vec<u8> into the outer Encoder
derived_encode_field_sizes(outer, nested_encoder) ==
    push_var1_size(outer, finalize_sizes(nested_encoder).written)

\* number of fields pushed into one Encoder of sizes
MaxSizedPushes == 2

\* the byte lengths of the pushed fields: 0, 5, 2^31, 2^32 - 16, 2^32
FieldSizes ==
    { SizeOf(0), SizeOf(5), Size(32768, 0), Size(65535, 65520), Size(65536, 0) }

InitSizes ==
    /\ pc = "enc"
    /\ host = "le"
    /\ enc = EncoderSizes_new
    /\ log = <<>>
    /\ base = 0
    /\ out = NoWritten
    /\ fin = "none"
    /\ dec = NoDecoder
    /\ res = NoResult
    /\ got = <<>>
    /\ shape = <<>>
    /\ derived = NoDerive
    /\ value = <<>>
    /\ view = NoView

\* encode_field of a [u8; N]
PushFixedSized ==
    /\ pc = "enc"
    /\ Len(log) < MaxSizedPushes
    /\ \E n \in FieldSizes :
          /\ enc' = push_fixed_size(enc, n)
          /\ log' = Append(log, [var |-> FALSE, size |-> n])
    /\ UNCHANGED <<pc, host, base, out, fin, dec, res, got, shape, derived, value, view>>

\* encode_field of a Vec<u8>
PushVar1Sized ==
    /\ pc = "enc"
    /\ Len(log) < MaxSizedPushes
    /\ \E n \in FieldSizes :
          /\ enc' = push_var1_size(enc, n)
          /\ log' = Append(log, [var |-> TRUE, size |-> n])
    /\ UNCHANGED <<pc, host, base, out, fin, dec, res, got, shape, derived, value, view>>

\* the pushed fields were those of a derived record: its encode_field on a
\* fresh outer Encoder; value keeps the nested Encoder
EncodeRecordSized ==
    /\ pc = "enc"
    /\ value' = <<enc>>
    /\ enc' = derived_encode_field_sizes(EncoderSizes_new, enc)
    /\ pc' = "encoded"
    /\ UNCHANGED <<host, log, base, out, fin, dec, res, got, shape, derived, view>>

\* encoder.finalize(&mut out), the result to the caller
FinalizeSized ==
    /\ pc \in {"enc", "encoded"}
    /\ LET r == finalize_sizes(enc)
       IN  /\ out' = r
           /\ fin' = IF r.ok THEN "ok" ELSE "err"
    /\ pc' = "fin"
    /\ UNCHANGED <<host, enc, log, base, dec, res, got, shape, derived, value, view>>

NextSizes ==
    \/ PushFixedSized
    \/ PushVar1Sized
    \/ EncodeRecordSized
    \/ FinalizeSized

SpecSizes == InitSizes /\ [][NextSizes]_vars

\* the true size of the payload of the pushed fields: header, fixed
\* fields, one entry per variable field, variable fields
TrueTotal(fields) ==
    LET sizes == [i \in 1..Len(fields) |->
                    IF fields[i].var THEN SizeAdd(fields[i].size, SizeOf(4))
                    ELSE fields[i].size]
    IN  SizeAdd(SizeOf(8), SizeSum(sizes))

\* C18: whenever 8 + len(fixed) + 4 * len(var_lengths) + len(data), or a
\* running VarIndex offset, does not fit in a u32, encoding reports
\* InvalidLength to the caller instead of emitting a payload with wrapped
\* header or index values, for a direct finalize and for the finalize of
\* the nested Encoder inside a derived record's encode_field.
C18_OverflowSurfaced ==
    pc = "fin" =>
        /\ ~SizeFitsU32(TrueTotal(log)) => fin = "err"
        /\ (fin = "ok" /\ value = <<>>) =>
              /\ out.total_len = TrueTotal(log)
              /\ out.written = TrueTotal(log)
              /\ \A k \in 1..Len(out.entries) : SizeFitsU32(out.entries[k])

(***************************************************************************)
(* Specification SpecEncode: direct encode_field::<IS_LAST_VAR> calls on   *)
(* a fresh Encoder, fields of every kind in any order, sequences nested    *)
(* three levels deep included.  Each call is recorded: value holds the     *)
(* field, derived.flags the flag, res.len the number of the call and       *)
(* res.ok whether it returned.                                             *)
(***************************************************************************)
\* values of Vec<Vec<Vec<u8>>>: empty, one empty Vec<Vec<u8>>, and the
\* value vec![vec![vec![1]]] of the test rejects_var3_vec_vec_vec_u8
Var3Inputs ==
    { [kind |-> "var3", w |-> 1, val |-> <<>>],
      [kind |-> "var3", w |-> 1, val |-> << <<>> >>],
      [kind |-> "var3", w |-> 1, val |-> << << <<1>> >> >>] }

EncodeInputs == FixedInputs \cup Var1Inputs \cup Var2Inputs \cup Var3Inputs

\* value.encode_field::<IS_LAST_VAR>(&mut encoder); a panic ends the caller
EncodeField ==
    /\ pc = "enc"
    /\ Len(log) < MaxPushes
    /\ \E f \in EncodeInputs, is_last_var \in BOOLEAN :
          LET r == encode_field(enc, f, is_last_var)
          IN  /\ enc' = r.e
              /\ pc' = IF r.panic THEN "panic" ELSE "enc"
              /\ log' = IF r.panic THEN log ELSE Append(log, f)
              /\ value' = <<f>>
              /\ derived' = [ok |-> TRUE, flags |-> <<is_last_var>>]
              /\ res' = [op |-> "encode_field", len |-> Len(log) + 1,
                         ok |-> ~r.panic, bytes |-> <<>>]
    /\ UNCHANGED <<host, base, out, fin, dec, got, shape, view>>

NextEncode == EncodeField

SpecEncode == Init /\ [][NextEncode]_vars

\* the step is a call of encode_field on a field of the given kinds
EncodeCall(kinds) ==
    /\ res'.op = "encode_field"
    /\ res' # res
    /\ value'[1].kind \in kinds

\* C21: every encode_field::<true> call on a value of a sequence nested
\* three levels deep (Vec<Vec<Vec<u8>>>) panics and leaves var_length and
\* data (the whole Encoder) without any new entry or byte.
C21_Var3Refused ==
    [][ (EncodeCall({"var3"}) /\ derived'.flags = <<TRUE>>)
            => (pc' = "panic" /\ ~res'.ok /\ enc' = enc) ]_vars

\* the call on vec![vec![vec![1]]] of the test did panic
C21_Witness ==
    /\ pc = "panic"
    /\ res.op = "encode_field"
    /\ value = << [kind |-> "var3", w |-> 1, val |-> << << <<1>> >> >>] >>
    /\ derived.flags = <<TRUE>>

(***************************************************************************)
(* Native against Little (specification Spec)                              *)
(***************************************************************************)
RECURSIVE encode_all(_, _)
\* the same fields pushed, in order, into another Encoder
encode_all(e, fields) ==
    IF Len(fields) = 0 THEN e
    ELSE encode_all(encode_field(e, Head(fields), TRUE).e, Tail(fields))

\* the payload a Little Encoder finalizes after the pushes of the log
LittlePayload == finalize(encode_all(Encoder_new("Little"), log), <<>>).out

\* C22: for every sequence of pushes, the payload finalized by a Native
\* Encoder is byte for byte the payload finalized by a Little Encoder
\* after the same pushes, on a host of either byte order.
C22_NativeIsLittle ==
    (fin = "ok" /\ enc.endian = "Native") => Payload = LittlePayload

(***************************************************************************)
(* Last-var flag assignment (specification SpecDerive)                     *)
(***************************************************************************)
\* the positions of the variable fields of the declared record: var1 and
\* var2 sequences and nested records
VariablePositions == { i \in 1..Len(shape) : shape[i].c \in {"Vec", "rec"} }

\* the position the flag true belongs to: the last variable field, or the
\* last declared field when there is none
LastVarPosition ==
    IF VariablePositions = {} THEN Len(shape)
    ELSE CHOOSE i \in VariablePositions : \A j \in VariablePositions : j <= i

\* C23: for every accepted record shape with at least one field,
\* IS_LAST_VAR is true for exactly one field and false for the others; the
\* field with true is the last var1 or var2 field, a nested record counting
\* as var1, and the last declared field when no field is variable.
C23_LastVarFlag ==
    (derived.ok /\ pc # "declared" /\ Len(shape) >= 1) =>
        /\ Len(derived.flags) = Len(shape)
        /\ \A i \in 1..Len(shape) : derived.flags[i] <=> (i = LastVarPosition)

(***************************************************************************)
(* var2 decode consumes the tail (specification SpecDecode)                *)
(***************************************************************************)
\* the view of the k-th variable segment of the Decoder (k from 0), decoded
\* as a sequence of elements of width w
SegmentView(d, k, w) ==
    decode_segment(next_var([d EXCEPT !.var_cursor = k]).bytes, w, d.endian).v

\* C24: decode_field with IS_LAST_VAR = true for a var2 type on a Decoder
\* with var_cursor = c makes at most var_count - c calls of next_var (the
\* cursor, advanced once per call, never passes var_count); on success it
\* returns exactly var_count - c segments in index order and leaves
\* var_cursor = var_count, where var_count is
\* (data_offset - var_index_offset) / 4.
C24_Var2ConsumesTail ==
    [][ (pc = "dec" /\ res'.op = "decode_field"
         /\ field_var_kind(shape'[1]) = "Var2" /\ derived'.flags = <<TRUE>>) =>
          LET c == dec.var_cursor
              n == (dec.data_offset - dec.var_idx_offset) \div 4
              w == shape'[1].arg.arg.w
          IN  /\ n = var_count(dec)
              /\ c <= dec'.var_cursor /\ dec'.var_cursor <= n
              /\ dec'.fixed_cursor = dec.fixed_cursor
              /\ res'.ok =>
                    /\ view'.ok
                    /\ Len(view'.v) = n - c
                    /\ dec'.var_cursor = n
                    /\ \A k \in 1..(n - c) :
                          view'.v[k] = SegmentView(dec, c + k - 1, w) ]_vars

\* a var2 decode_field with IS_LAST_VAR = true has returned two segments,
\* the whole VarIndex of the Decoder
C24_Witness ==
    /\ pc = "dec"
    /\ res.op = "decode_field"
    /\ field_var_kind(shape[1]) = "Var2"
    /\ derived.flags = <<TRUE>>
    /\ res.ok
    /\ Len(view.v) = 2
    /\ dec.var_cursor = var_count(dec)
    /\ \E k \in 1..2 : Len(view.v[k]) > 0

(***************************************************************************)
(* Decoder reads stay in bounds (specification SpecDec)                    *)
(***************************************************************************)
\* buf[start..end] is a slice expression that does not panic
InBuffer(d, start, end) == 0 <= start /\ start <= end /\ end <= Len(d.buf)

\* C25: on a Decoder constructed from any buffer, no call of
\* next_fixed_bytes, next_var or next_var_index slices the buffer outside
\* its bounds; a slice returned by next_fixed_bytes lies within
\* [8, var_index_offset), a slice returned by next_var lies within
\* [data_offset, total_len], and every VarIndex entry that is read lies
\* within [var_index_offset, data_offset), so no byte at or beyond total_len
\* is returned.
C25_ReadsInBounds ==
    [][ pc = "dec" =>
          /\ res'.op = "next_fixed_bytes" =>
                LET start == HEADER_LEN + dec.fixed_cursor
                    end   == start + res'.len
                IN  res'.ok =>
                      /\ InBuffer(dec, start, end)
                      /\ HEADER_LEN <= start /\ end <= dec.var_idx_offset
                      /\ end <= dec.total_len
                      /\ res'.bytes = Slice(dec.buf, start, end)
          /\ (res'.op = "next_var" /\ dec.var_cursor < var_count(dec)) =>
                LET c     == dec.var_cursor
                    last  == IF c + 1 < var_count(dec) THEN c + 1 ELSE c
                    start == BufEntry(dec, c)
                    end   == IF c + 1 < var_count(dec) THEN BufEntry(dec, c + 1)
                             ELSE dec.total_len
                IN  /\ InBuffer(dec, dec.var_idx_offset + 4 * c,
                                dec.var_idx_offset + 4 * last + 4)
                    /\ dec.var_idx_offset + 4 * last + 4 <= dec.data_offset
                    /\ res'.ok =>
                          /\ InBuffer(dec, start, end)
                          /\ dec.data_offset <= start /\ end <= dec.total_len
                          /\ res'.bytes = Slice(dec.buf, start, end)
          /\ res'.op = "next_var_index" => res'.bytes = <<>> ]_vars

\* next_var has returned the last segment, non-empty and ending at
\* total_len, from a buffer that goes on beyond total_len
C25_Witness ==
    /\ pc = "dec"
    /\ res.op = "next_var"
    /\ res.ok
    /\ Len(res.bytes) > 0
    /\ dec.var_cursor = var_count(dec)
    /\ Len(dec.buf) > dec.total_len

(***************************************************************************)
(* Decoder state invariant (specification SpecDec)                         *)
(***************************************************************************)
\* the invariant of a constructed Decoder: the header ordering and the
\* two cursors within their regions
DecoderInvariant(d) ==
    /\ 8 <= d.var_idx_offset
    /\ d.var_idx_offset <= d.data_offset
    /\ d.data_offset <= d.total_len
    /\ d.total_len <= Len(d.buf)
    /\ (d.data_offset - d.var_idx_offset) % 4 = 0
    /\ (d.total_len > d.var_idx_offset) => (var_count(d) >= 1)
    /\ d.fixed_cursor <= d.var_idx_offset - 8
    /\ d.var_cursor <= var_count(d)

\* C26: in every state reached from a successful construction by any
\* sequence of next_fixed_bytes, next_var and next_var_index calls,
\* successful or failing, 8 <= var_index_offset <= data_offset <= total_len
\* <= len(buf), data_offset - var_index_offset is a multiple of 4,
\* total_len > var_index_offset implies var_count >= 1, fixed_cursor <=
\* var_index_offset - 8 and var_cursor <= var_count; total_len,
\* var_index_offset, data_offset (and the buffer) never change after
\* construction.
C26_DecoderInvariant ==
    [][ pc' = "dec" =>
          /\ DecoderInvariant(dec')
          /\ pc = "dec" =>
                /\ dec'.total_len = dec.total_len
                /\ dec'.var_idx_offset = dec.var_idx_offset
                /\ dec'.data_offset = dec.data_offset
                /\ dec'.buf = dec.buf ]_vars

\* both cursors have reached the end of their non-empty regions and a
\* further next_var has failed
C26_Witness ==
    /\ pc = "dec"
    /\ res.op = "next_var" /\ ~res.ok
    /\ var_count(dec) >= 1
    /\ dec.var_cursor = var_count(dec)
    /\ dec.fixed_cursor > 0
    /\ dec.fixed_cursor = dec.var_idx_offset - 8

(***************************************************************************)
(* Failing reads (specification SpecDec)                                   *)
(***************************************************************************)
\* C27: whenever next_var returns InvalidLength (cursor exhausted, entry
\* below data_offset, end before start, or end beyond total_len),
\* var_cursor and fixed_cursor have the values they had before the call.
C27_FailingNextVarUnchanged ==
    [][ (pc = "dec" /\ res'.op = "next_var" /\ ~res'.ok) =>
            /\ dec'.var_cursor = dec.var_cursor
            /\ dec'.fixed_cursor = dec.fixed_cursor ]_vars

\* C28: whenever next_fixed_bytes(len) returns InvalidLength, fixed_cursor
\* and var_cursor (the whole Decoder) keep their previous values, so a
\* later call with a length that fits in the remaining Fixed region still
\* succeeds and returns the bytes at the old cursor.
C28_FailingFixedUnchanged ==
    [][ (pc = "dec" /\ res'.op = "next_fixed_bytes" /\ ~res'.ok) =>
            /\ dec'.fixed_cursor = dec.fixed_cursor
            /\ dec'.var_cursor = dec.var_cursor
            /\ dec' = dec
            /\ \A len \in 0..(dec.var_idx_offset - 8 - dec.fixed_cursor) :
                  LET r == next_fixed_bytes(dec', len)
                  IN  /\ r.ok
                      /\ r.bytes = Slice(dec.buf, 8 + dec.fixed_cursor,
                                         8 + dec.fixed_cursor + len)
                      /\ r.d.fixed_cursor = dec.fixed_cursor + len ]_vars

\* a call that overran the non-empty rest of the Fixed region has failed
\* and a call for the one byte that is left would succeed
C28_Witness ==
    /\ pc = "dec"
    /\ res.op = "next_fixed_bytes"
    /\ ~res.ok
    /\ dec.var_idx_offset - 8 - dec.fixed_cursor = 1
    /\ res.len > 1
    /\ next_fixed_bytes(dec, 1).ok
    /\ Len(next_fixed_bytes(dec, 1).bytes) = 1

(***************************************************************************)
(* Independence of the two cursors (specification SpecDec)                 *)
(***************************************************************************)
\* C29: next_fixed_bytes never changes var_cursor, next_var and
\* next_var_index never change fixed_cursor, and none of them changes the
\* buffer; the slice of a fixed read is determined by fixed_cursor and the
\* length alone and the slice of a variable read by var_cursor alone, so
\* neither depends on how the reads of the other kind were interleaved.
C29_CursorsIndependent ==
    [][ pc = "dec" =>
          /\ dec'.buf = dec.buf
          /\ res'.op = "next_fixed_bytes" =>
                /\ dec'.var_cursor = dec.var_cursor
                /\ \A c \in 0..var_count(dec) :
                      LET r == next_fixed_bytes([dec EXCEPT !.var_cursor = c], res'.len)
                      IN  /\ r.ok = res'.ok
                          /\ r.bytes = res'.bytes
                          /\ r.d.fixed_cursor = dec'.fixed_cursor
          /\ res'.op \in {"next_var", "next_var_index"} =>
                /\ dec'.fixed_cursor = dec.fixed_cursor
                /\ \A f \in 0..(dec.var_idx_offset - 8) :
                      LET d0 == [dec EXCEPT !.fixed_cursor = f]
                          r  == IF res'.op = "next_var" THEN next_var(d0)
                                ELSE [ok |-> next_var_index(d0).ok, bytes |-> <<>>,
                                      d |-> next_var_index(d0).d]
                      IN  /\ r.ok = res'.ok
                          /\ r.bytes = res'.bytes
                          /\ r.d.var_cursor = dec'.var_cursor ]_vars

\* a variable read has succeeded after a fixed read had moved the fixed
\* cursor, and both cursors stand inside their regions
C29_Witness ==
    /\ pc = "dec"
    /\ res.op = "next_var"
    /\ res.ok
    /\ Len(res.bytes) > 0
    /\ dec.fixed_cursor = 1
    /\ dec.var_cursor = 1
    /\ dec.var_idx_offset - 8 > 1

(***************************************************************************)
(* Encoder accumulator (specification SpecSizes: pushes of every size,     *)
(* the three segments kept as byte counts and the entries as they are      *)
(* stored)                                                                 *)
(***************************************************************************)
\* C30: after any sequence of encode_field calls on a fresh Encoder the sum
\* of the var_lengths entries equals len(data); a fixed push changes only
\* the fixed segment, which grows by the pushed bytes; a var1 push leaves
\* the fixed segment alone, appends to data, and adds exactly one
\* var_lengths entry, equal to the number of bytes it appended; the earlier
\* entries remain a prefix.
C30_AccumulatorInvariant ==
    [][ (pc = "enc" /\ pc' = "enc" /\ log' # log) =>
          LET f == log'[Len(log')]
              n == Len(enc.var_length)
          IN  /\ SizeSum(enc'.var_length) = enc'.data
              /\ ~f.var =>
                    /\ enc'.fixed = SizeAdd(enc.fixed, f.size)
                    /\ enc'.var_length = enc.var_length
                    /\ enc'.data = enc.data
              /\ f.var =>
                    /\ enc'.fixed = enc.fixed
                    /\ enc'.data = SizeAdd(enc.data, f.size)
                    /\ Len(enc'.var_length) = n + 1
                    /\ SubSeq(enc'.var_length, 1, n) = enc.var_length
                    /\ enc'.var_length[n + 1] = f.size ]_vars

====
